---------------------------- MODULE Spec2Model ----------------------------
(***************************************************************************)
(* The multi-turn tool-orchestration loop of NextjsWithMcp:                *)
(*   MCPUI.handleRun (app/mcp/page.tsx, src/app/mcp/page.tsx)              *)
(*   runQuery        (lib/actions.ts, src/hooks/useWorkspaceSocket.tsx)    *)
(*   MCPClient       (lib/mcpClient.ts, src/unnamed/part_004)              *)
(*   the math server (mcp-tools/math-server.js, src/unnamed/part_003)      *)
(*                                                                         *)
(* One action per resumption of an await: an action is the synchronous     *)
(* code that runs from the completion of one external request up to the    *)
(* next request being issued.  Text is modelled as a sequence of tokens    *)
(* (string literals of the source and the interpolated values, as strings).*)
(***************************************************************************)
EXTENDS Integers, Sequences, FiniteSets, TLC

(***************************************************************************)
(* Bounds of the model.                                                    *)
(***************************************************************************)
\* the largest number of entries of mcpConfig.json's mcpServers
NumServers == 2
\* the largest number of reasoning-model calls explored in one query
MaxTurns == 2
\* the largest number of content blocks of one reasoning-model response
MaxBlocks == 2
\* the largest argument of the add and multiply calls of a repeated invocation
MaxArg == 1
\* the largest number of content items of one tools/call result
MaxItems == 2
\* the largest number of arguments of one server descriptor
MaxArgList == 2
\* the largest argument of the is_prime calls
MaxN == 30
\* the largest number of method calls made on one client
MaxCalls == 4
\* the largest number of messages and error events one socket receives
MaxMessages == 3

VARIABLES
    apiKey,          \* process.env.ANTHROPIC_API_KEY is set
    cfgOk,           \* mcpConfig.json can be read and parsed
    nServers,        \* number of entries of config.mcpServers
    looping,         \* the reasoning model answers every call with a tool-use block
    pc,              \* position of runQuery: the request it awaits, or its outcome
    error,           \* the error runQuery raised ("" while none)
    result,          \* the value processQuery returned, which runQuery returns
    conn,            \* per configured server: state of its transport
    servers,         \* this.servers: the connections, in insertion order
    ci,              \* connectToServers: index of the server being connected
    tools,           \* connectToServers: the local list `tools`
    availableTools,  \* this.availableTools
    pq,              \* processQuery: "idle", "running", "returned" or "raised"
    steps,           \* processQuery: the local list `steps`
    messages,        \* processQuery: the local list `messages`
    response,        \* processQuery: the local `response`
    usedTool,        \* processQuery: the local `usedTool`
    block,           \* processQuery: index of the tool-use block being executed
    si,              \* executeTool: position in this.servers of the server being called
    ki,              \* cleanup: position in this.servers of the connection being closed
    modelCalls,      \* number of anthropic.messages.create calls issued
    toolInvocations, \* number of executeTool calls made
    responses,       \* history: the responses the reasoning model returned, in order
    sent,            \* history: the message log sent with each reasoning-model call
    toolResults,     \* history: the value each executeTool call returned, in order
    calls,           \* history: the tools/call requests issued, in order
    cwd,             \* argument resolution: process.cwd()
    serverArgs,      \* argument resolution: serverInfo.args of one descriptor
    resolvedArgs,    \* argument resolution: the elements of resolvedArgs mapped so far
    logs,            \* concurrent queries: the `messages` arrays created so far
    stepLists,       \* concurrent queries: the `steps` arrays created so far
    runs,            \* concurrent queries: per runQuery call, its position and locals
    qsent,           \* concurrent queries: history of the logs sent to the model
    hasStructure,    \* useWorkspaceSocket: defaultStructure is given
    mounted,         \* useWorkspaceSocket: the effect has run and its cleanup has not
    readyState,      \* useWorkspaceSocket: ws.readyState
    connected,       \* useWorkspaceSocket: the state `connected`
    timers,          \* useWorkspaceSocket: the pending setTimeout callbacks (their responses)
    wsSent,          \* useWorkspaceSocket: the ws.send calls, with ws.readyState at the call
    hookMessages,    \* useWorkspaceSocket: the state `messages` (the type of each entry)
    nReceived,       \* useWorkspaceSocket: number of messages and error events received
    transports,      \* method calls: every transport the client opened, with its state
    clientServers,   \* method calls: this.servers, entries (name, transport) in order
    clientTools,     \* method calls: this.availableTools
    lastCall,        \* method calls: the last method called and its outcome
    nCalls,          \* method calls: number of methods called
    closes,          \* history: the close requests cleanup issued and their outcome
    inflight,        \* the external requests issued and not yet settled
    hr,              \* MCPUI.handleRun: "idle", "running" (awaits runQuery) or "done"
    uiSteps,         \* MCPUI: the state `steps`, the displayed step list
    loading          \* MCPUI: the state `loading`

env == <<apiKey, cfgOk, nServers, looping>>
conns == <<conn, servers, ci, tools, availableTools>>
query == <<pq, steps, messages, response, usedTool, block, si, modelCalls, toolInvocations>>
hist == <<responses, sent, toolResults, calls>>
page == <<hr, uiSteps, loading>>
\* runQuery and the page
main == <<env, conns, query, hist, page, pc, error, result, ki, inflight, closes>>
\* the map over serverInfo.args taken by itself
argVars == <<cwd, serverArgs, resolvedArgs>>
\* one client whose methods are called one after the other
clientVars == <<transports, clientServers, clientTools, lastCall, nCalls>>
\* the useWorkspaceSocket hook and its socket
socketVars == <<hasStructure, mounted, readyState, connected, timers, wsSent,
                hookMessages, nReceived>>
\* runQuery calls that run concurrently
concVars == <<logs, stepLists, runs, qsent>>
aux == <<argVars, clientVars, socketVars, concVars>>
vars == <<main, aux>>

(***************************************************************************)
(* The math server: the tools it lists and its tools/call handler.         *)
(***************************************************************************)
MathTools ==
    << "add", "multiply", "power", "factorial", "is_prime", "fibonacci",
       "random", "reverse_string", "word_count", "current_time" >>

\* The result texts are those of the source, with its multiplication sign
\* written "x" and its greater-or-equal sign written ">=".

\* validateNumber: the argument is present (the calls of the model carry
\* integers only, so a present argument is a valid number)
validNumber(args, f) == f \in DOMAIN args

McpError(code, msg) == [ok |-> FALSE, code |-> code, message |-> msg, content |-> <<>>]

TextContent(text) == [ok |-> TRUE, code |-> "", message |-> "",
                      content |-> << [type |-> "text", text |-> text] >>]

RECURSIVE FactorialLoop(_, _, _)
FactorialLoop(i, n, acc) == IF i <= n THEN FactorialLoop(i + 1, n, acc * i) ELSE acc

RECURSIVE Pow(_, _)
Pow(b, e) == IF e <= 0 THEN 1 ELSE b * Pow(b, e - 1)

\* mutant of PrimeLoop: the trial division stops before the square root
RECURSIVE PrimeLoopStrict(_, _)
PrimeLoopStrict(i, n) ==
    IF i * i < n
    THEN IF n % i = 0 THEN i ELSE PrimeLoopStrict(i + 2, n)
    ELSE 0

\* the trial division of is_prime: the first odd i with 3 <= i <= sqrt(n)
\* dividing n, or 0 when there is none
RECURSIVE PrimeLoop(_, _)
PrimeLoop(i, n) ==
    IF i * i <= n
    THEN IF n % i = 0 THEN i ELSE PrimeLoop(i + 2, n)
    ELSE 0

RECURSIVE FibLoop(_, _, _, _)
FibLoop(i, n, a, b) == IF i <= n THEN FibLoop(i + 1, n, b, a + b) ELSE b

FactorialLimit == 170
FibonacciLimit == 78

\* mutant of CaseAdd: the server keeps a running total over the requests it
\* has served
CaseAddAccumulates(args) ==
    IF ~validNumber(args, "a") THEN McpError("InvalidParams", <<"a", " must be a valid number">>)
    ELSE IF ~validNumber(args, "b") THEN McpError("InvalidParams", <<"b", " must be a valid number">>)
    ELSE TextContent(<<ToString(args.a), " + ", ToString(args.b), " = ",
                       ToString(args.a + args.b + Len(calls))>>)

CaseAdd(args) ==
    IF ~validNumber(args, "a") THEN McpError("InvalidParams", <<"a", " must be a valid number">>)
    ELSE IF ~validNumber(args, "b") THEN McpError("InvalidParams", <<"b", " must be a valid number">>)
    ELSE TextContent(<<ToString(args.a), " + ", ToString(args.b), " = ", ToString(args.a + args.b)>>)

CaseMultiply(args) ==
    IF ~validNumber(args, "a") THEN McpError("InvalidParams", <<"a", " must be a valid number">>)
    ELSE IF ~validNumber(args, "b") THEN McpError("InvalidParams", <<"b", " must be a valid number">>)
    ELSE TextContent(<<ToString(args.a), " x ", ToString(args.b), " = ", ToString(args.a * args.b)>>)

CasePower(args) ==
    IF ~validNumber(args, "base") THEN McpError("InvalidParams", <<"base", " must be a valid number">>)
    ELSE IF ~validNumber(args, "exponent")
         THEN McpError("InvalidParams", <<"exponent", " must be a valid number">>)
    ELSE TextContent(<<ToString(args.base), "^", ToString(args.exponent), " = ", ToString(Pow(args.base, args.exponent))>>)

CaseFactorial(args) ==
    IF ~validNumber(args, "n") THEN McpError("InvalidParams", <<"n", " must be a valid number">>)
    ELSE IF args.n < 0
         THEN McpError("InvalidParams", <<"Factorial requires a non-negative integer">>)
    ELSE IF args.n > FactorialLimit
         THEN McpError("InvalidParams", <<"Number too large (would exceed precision)">>)
    ELSE TextContent(<<ToString(args.n), "! = ", ToString(FactorialLoop(2, args.n, 1))>>)

CaseIsPrime(args) ==
    IF ~validNumber(args, "n") THEN McpError("InvalidParams", <<"n", " must be a valid number">>)
    ELSE IF args.n < 2 THEN TextContent(<<ToString(args.n), " is not prime (must be integer >= 2)">>)
    ELSE IF args.n = 2 THEN TextContent(<<ToString(args.n), " is prime">>)
    ELSE IF args.n % 2 = 0 THEN TextContent(<<ToString(args.n), " is not prime (even number)">>)
    ELSE IF PrimeLoop(3, args.n) # 0
         THEN TextContent(<<ToString(args.n), " is not prime (divisible by ", ToString(PrimeLoop(3, args.n)), ")">>)
    ELSE TextContent(<<ToString(args.n), " is prime">>)

CaseFibonacci(args) ==
    IF ~validNumber(args, "n") THEN McpError("InvalidParams", <<"n", " must be a valid number">>)
    ELSE IF args.n < 0
         THEN McpError("InvalidParams", <<"Fibonacci requires non-negative integer">>)
    ELSE IF args.n > FibonacciLimit
         THEN McpError("InvalidParams", <<"Number too large (would exceed precision)">>)
    ELSE IF args.n <= 1 THEN TextContent(<<"Fibonacci(", ToString(args.n), ") = ", ToString(args.n)>>)
    ELSE TextContent(<<"Fibonacci(", ToString(args.n), ") = ", ToString(FibLoop(2, args.n, 0, 1))>>)

\* the CallToolRequestSchema handler; handleError rethrows an McpError as it is.
\* reverse_string, word_count, random and current_time are not called by the
\* tool calls of this model.
MathCall(name, args) ==
    CASE name = "add"       -> CaseAdd(args)
      [] name = "multiply"  -> CaseMultiply(args)
      [] name = "power"     -> CasePower(args)
      [] name = "factorial" -> CaseFactorial(args)
      [] name = "is_prime"  -> CaseIsPrime(args)
      [] name = "fibonacci" -> CaseFibonacci(args)
      [] OTHER              -> McpError("MethodNotFound", <<"Unknown tool: ", name>>)

(***************************************************************************)
(* Values exchanged with the reasoning model.                              *)
(***************************************************************************)
Query == "query"
NoId == <<0, 0>>
NoInput == [none |-> 0]

\* a content block of a response or of a message
Block(type, id, name, input, text) ==
    [type |-> type, id |-> id, name |-> name, input |-> input, text |-> text]

\* the tool calls the reasoning model may request in the first tool-use block
\* of a response, and the one it requests in the later tool-use blocks
ToolCalls ==
    { [name |-> "add", input |-> [a |-> 1, b |-> 2]],
      [name |-> "factorial", input |-> [n |-> 171]],
      [name |-> "lookup", input |-> [q |-> 1]] }
LaterCall == [name |-> "multiply", input |-> [a |-> 2, b |-> 3]]

BlockTypes == {"text", "tool_use"}
ResponseShapes == UNION { [1..n -> BlockTypes] : n \in 0..MaxBlocks }

HasToolUse(resp) == \E i \in DOMAIN resp : resp[i].type = "tool_use"

FirstToolUse(resp) ==
    IF HasToolUse(resp)
    THEN CHOOSE i \in DOMAIN resp :
            /\ resp[i].type = "tool_use"
            /\ \A j \in 1..(i - 1) : resp[j].type # "tool_use"
    ELSE 0

\* the response of turn `turn` with the block types `shape`, whose first
\* tool-use block requests `call`
MkResponse(shape, call, turn) ==
    LET first == IF \E i \in DOMAIN shape : shape[i] = "tool_use"
                 THEN CHOOSE i \in DOMAIN shape :
                        /\ shape[i] = "tool_use"
                        /\ \A j \in 1..(i - 1) : shape[j] # "tool_use"
                 ELSE 0
    IN [i \in DOMAIN shape |->
          IF shape[i] = "text"
          THEN Block("text", NoId, "", NoInput, <<"text ", ToString(turn), ".", ToString(i)>>)
          ELSE IF i = first
               THEN Block("tool_use", <<turn, i>>, call.name, call.input, <<>>)
               ELSE Block("tool_use", <<turn, i>>, LaterCall.name, LaterCall.input, <<>>)]

(***************************************************************************)
(* MCPClient: the pure parts of processQuery and executeTool.              *)
(***************************************************************************)
Step(type, content) == [type |-> type, content |-> content]

\* JSON.stringify(toolInput, null, 2)
Stringify(input) == ToString(input)

ToolUseStep(b) == Step("tool_use", <<"Tool: ", b.name, "\nInput:\n", Stringify(b.input)>>)

\* mutant of Scan: the loop stops one block short of the end of the content
RECURSIVE ScanSkipsLast(_, _, _)
ScanSkipsLast(resp, i, acc) ==
    IF i >= Len(resp) THEN [steps |-> acc, tool |-> 0]
    ELSE IF resp[i].type = "text"
         THEN ScanSkipsLast(resp, i + 1, Append(acc, Step("text", resp[i].text)))
    ELSE IF resp[i].type = "tool_use"
         THEN [steps |-> Append(acc, ToolUseStep(resp[i])), tool |-> i]
    ELSE ScanSkipsLast(resp, i + 1, acc)

\* the for loop over response.content from block `i` on, up to the await of
\* executeTool: the steps pushed, and the index of the tool-use block reached
\* (0 when the loop ran to the end of the content)
RECURSIVE Scan(_, _, _)
Scan(resp, i, acc) ==
    IF i > Len(resp) THEN [steps |-> acc, tool |-> 0]
    ELSE IF resp[i].type = "text"
         THEN Scan(resp, i + 1, Append(acc, Step("text", resp[i].text)))
    ELSE IF resp[i].type = "tool_use"
         THEN [steps |-> Append(acc, ToolUseStep(resp[i])), tool |-> i]
    ELSE Scan(resp, i + 1, acc)

\* mutant of ResumeAt: the `break` is missing
ResumeAtNextBlock(resp, i) == i + 1

\* where the for loop goes on once block `i` has been executed: `break`
ResumeAt(resp, i) == Len(resp) + 1

\* c.text || JSON.stringify(c): the text when it is present and not empty
ItemText(c) == IF "text" \in DOMAIN c /\ c.text # <<>> THEN c.text ELSE <<Stringify(c)>>

RECURSIVE JoinLines(_, _)
JoinLines(items, i) ==
    IF i > Len(items) THEN <<>>
    ELSE IF i = Len(items) THEN ItemText(items[i])
    ELSE ItemText(items[i]) \o <<"\n">> \o JoinLines(items, i + 1)

\* executeTool's normalisation of result.content, a list of content items
Normalize(content) == JoinLines(content, 1)

\* result.content of a tools/call result: absent, a list of content items, a
\* plain string, or another value
AbsentContent == [kind |-> "absent", items |-> <<>>, text |-> <<>>]
ListContent(items) == [kind |-> "list", items |-> items, text |-> <<>>]
StringContent(text) == [kind |-> "string", items |-> <<>>, text |-> text]
ObjectContent(text) == [kind |-> "object", items |-> <<>>, text |-> text]

NoOutput == <<"Tool executed successfully (no output).">>

\* executeTool's value for a tools/call result with content `c`; !content
\* holds of absent content and of the empty string
NormalizeResult(c) ==
    IF c.kind = "absent" \/ (c.kind = "string" /\ c.text = <<>>) THEN NoOutput
    ELSE IF c.kind = "list" THEN Normalize(c.items)
    ELSE IF c.kind = "string" THEN c.text
    ELSE <<Stringify(c)>>

\* mutant of NotFound: the tool name is left out
NotFoundNoName(toolName) == <<"Tool not found in any server.">>

\* executeTool's value once the loop over this.servers has ended
NotFound(toolName) == <<"Tool '", toolName, "' not found in any server.">>

\* mutant of AssistantMessage: the content ends with the executed tool-use block
AssistantMessageUpToTool(resp) ==
    [role |-> "assistant", content |-> SubSeq(resp, 1, FirstToolUse(resp))]

AssistantMessage(resp) == [role |-> "assistant", content |-> resp]

ToolResultMessage(id, toolResult) ==
    [role |-> "user", content |-> << Block("tool_result", id, "", NoInput, toolResult) >>]

UserMessage(q) ==
    [role |-> "user", content |-> << Block("string", NoId, "", NoInput, <<q>>) >>]

\* mutant of PushTurn: the pair is put in front of the log
PushTurnPrepends(msgs, resp, id, toolResult) ==
    << AssistantMessage(resp), ToolResultMessage(id, toolResult) >> \o msgs

\* mutant of PushTurn: the tool-result message is pushed before the assistant
\* message
PushTurnSwapped(msgs, resp, id, toolResult) ==
    msgs \o << ToolResultMessage(id, toolResult), AssistantMessage(resp) >>

\* messages.push({ role: "assistant", ... }); messages.push({ role: "user", ... });
PushTurn(msgs, resp, id, toolResult) ==
    msgs \o << AssistantMessage(resp), ToolResultMessage(id, toolResult) >>

(***************************************************************************)
(* The state of the mounted page, with a non-blank query typed, before     *)
(* handleRun is called.                                                    *)
(***************************************************************************)
\* a path or other argument: whether it starts with "/" and its segments
Arg(abs, segs) == [abs |-> abs, segs |-> segs]

\* the descriptor of the documented configuration and the working directory
DocumentedArgs == << Arg(FALSE, <<".", "mcp-tools", "math-server.js">>) >>
ProjectDir == Arg(TRUE, <<"app">>)

\* the argument resolution is not looked at by itself
ArgsIdle == cwd = ProjectDir /\ serverArgs = DocumentedArgs /\ resolvedArgs = <<>>

CallOutcome(method, raised, err, toolsBefore, models) ==
    [method |-> method, raised |-> raised, error |-> err,
     toolsBefore |-> toolsBefore, modelCalls |-> models]

\* a client just constructed: no method has been called
ClientIdle ==
    /\ transports = <<>>
    /\ clientServers = <<>>
    /\ clientTools = <<>>
    /\ lastCall = CallOutcome("none", FALSE, "", 0, 0)
    /\ nCalls = 0

\* the hook is not mounted
SocketIdle ==
    /\ hasStructure = FALSE
    /\ mounted = FALSE
    /\ readyState = "NONE"
    /\ connected = FALSE
    /\ timers = {}
    /\ wsSent = <<>>
    /\ hookMessages = <<>>
    /\ nReceived = 0

\* the queries typed into two runQuery calls
QueryTexts == <<"first query", "second query">>
Queries == DOMAIN QueryTexts

NotStarted ==
    [pc |-> "new", log |-> 0, steps |-> 0, response |-> <<>>, block |-> 0,
     turn |-> 0]

\* no runQuery call has been made
ConcIdle ==
    /\ logs = <<>>
    /\ stepLists = <<>>
    /\ runs = [q \in Queries |-> NotStarted]
    /\ qsent = <<>>

AuxIdle == ArgsIdle /\ ClientIdle /\ SocketIdle /\ ConcIdle

InitMain ==
    /\ apiKey \in BOOLEAN
    /\ cfgOk \in BOOLEAN
    /\ nServers \in 0..NumServers
    /\ looping \in BOOLEAN
    /\ pc = "new"
    /\ error = ""
    /\ result = <<>>
    /\ conn = [i \in 1..nServers |-> "none"]
    /\ servers = <<>>
    /\ ci = 0
    /\ tools = <<>>
    /\ availableTools = <<>>
    /\ pq = "idle"
    /\ steps = <<>>
    /\ messages = <<>>
    /\ response = <<>>
    /\ usedTool = FALSE
    /\ block = 0
    /\ si = 0
    /\ ki = 0
    /\ modelCalls = 0
    /\ toolInvocations = 0
    /\ responses = <<>>
    /\ sent = <<>>
    /\ toolResults = <<>>
    /\ calls = <<>>
    /\ closes = <<>>
    /\ inflight = {}
    /\ hr = "idle"
    /\ uiSteps = <<>>
    /\ loading = FALSE

Init == InitMain /\ AuxIdle

\* a request to tool-provider server `target`, or to the reasoning model (0)
Req(kind, target) == [kind |-> kind, target |-> target]

\* the request whose settlement resumes runQuery at `pc`
Awaited ==
    CASE pc = "connect" -> { Req("connect", ci) }
      [] pc = "list" -> { Req("tools/list", ci) }
      [] pc = "model" -> { Req("messages.create", 0) }
      [] pc = "call" -> { Req("tools/call", servers[si]) }
      [] pc = "close" -> { Req("close", servers[ki]) }
      [] OTHER -> {}

\* the awaited request has settled and the requests `reqs` are issued
Issue(reqs) == inflight' = (inflight \ Awaited) \cup reqs

\* mutant of CallTargets: executeTool sends the call to every connection at once
CallTargetsAll(i) == i..Len(servers)

\* the positions in this.servers executeTool has a tools/call request issued
\* to when its loop is at position `i`: one request, awaited before the next
CallTargets(i) == {i}

CallRequests(i) == { Req("tools/call", servers[j]) : j \in CallTargets(i) }

\* runQuery ends by raising `e`: nothing catches it, client.cleanup() is skipped
Raise(e) ==
    /\ pc' = "raised"
    /\ error' = e
    /\ Issue({})
    /\ UNCHANGED <<result, ki>>

(***************************************************************************)
(* MCPUI.handleRun with a non-blank query, up to its call of runQuery;     *)
(* runQuery: new MCPClient() and connectToServers() up to its first await. *)
(***************************************************************************)
\* setLoading(true); setSteps([]);
BeginRun ==
    /\ hr = "idle"
    /\ hr' = "running"
    /\ loading' = TRUE
    /\ uiSteps' = <<>>

StartNoKey ==
    /\ pc = "new"
    /\ BeginRun
    /\ ~apiKey
    /\ Raise("Anthropic API key is required.")
    /\ UNCHANGED <<env, aux, closes, conns, query, hist>>

StartNoConfig ==
    /\ pc = "new"
    /\ BeginRun
    /\ apiKey
    /\ ~cfgOk
    /\ Raise("ConfigurationError")
    /\ UNCHANGED <<env, aux, closes, conns, query, hist>>

\* no entry in mcpServers: connectToServers publishes the empty tool list and
\* processQuery throws at once
StartNoServers ==
    /\ pc = "new"
    /\ BeginRun
    /\ apiKey
    /\ cfgOk
    /\ nServers = 0
    /\ availableTools' = tools
    /\ pq' = "raised"
    /\ Raise("No tools available. Please call connectToServers() first.")
    /\ UNCHANGED <<env, aux, closes, conn, servers, ci, tools, hist>>
    /\ UNCHANGED <<steps, messages, response, usedTool, block, si, modelCalls, toolInvocations>>

\* mutant of StartConnect: the constructor does not check the credential
StartConnectUnchecked ==
    /\ pc = "new"
    /\ BeginRun
    /\ cfgOk
    /\ nServers > 0
    /\ ci' = 1
    /\ Issue({ Req("connect", 1) })
    /\ pc' = "connect"
    /\ UNCHANGED <<env, aux, closes, conn, servers, tools, availableTools, query, hist, error, result, ki>>

StartConnect ==
    /\ pc = "new"
    /\ BeginRun
    /\ apiKey
    /\ cfgOk
    /\ nServers > 0
    /\ ci' = 1
    /\ Issue({ Req("connect", 1) })
    /\ pc' = "connect"
    /\ UNCHANGED <<env, aux, closes, conn, servers, tools, availableTools, query, hist, error, result, ki>>

(***************************************************************************)
(* connectToServers                                                        *)
(***************************************************************************)
\* await client.connect(transport) resolves; this.servers.set(serverName, ...)
ConnectOk ==
    /\ pc = "connect"
    /\ conn' = [conn EXCEPT ![ci] = "open"]
    /\ servers' = Append(servers, ci)
    /\ Issue({ Req("tools/list", ci) })
    /\ pc' = "list"
    /\ UNCHANGED <<env, aux, closes, page, ci, tools, availableTools, query, hist, error, result, ki>>

\* await client.connect(transport) rejects: no connection is registered
ConnectFail ==
    /\ pc = "connect"
    /\ Raise("ConnectionError")
    /\ UNCHANGED <<env, aux, closes, page, conns, query, hist>>

\* the first reasoning-model call of processQuery is issued with `msgs`
IssueFirstModelCall(msgs) ==
    /\ pq' = "running"
    /\ steps' = <<>>
    /\ messages' = msgs
    /\ modelCalls' = modelCalls + 1
    /\ sent' = Append(sent, msgs)
    /\ Issue({ Req("messages.create", 0) })
    /\ pc' = "model"
    /\ UNCHANGED <<response, usedTool, block, si, toolInvocations>>
    /\ UNCHANGED <<responses, toolResults, calls, error, result, ki>>

\* mutant of Published: the list is published after every server
PublishedEachServer(i, t) == t

\* this.availableTools once the tools of server `i` have been pushed, `t` being
\* the local list: it is assigned after the loop over the servers
Published(i, t) == IF i < nServers THEN availableTools ELSE t

\* the tools/list request resolves: the server's tools are pushed; after the
\* last server the list is published and processQuery runs to its first await
ListOk ==
    /\ pc = "list"
    /\ LET t == tools \o [i \in DOMAIN MathTools |-> [name |-> MathTools[i]]]
       IN /\ tools' = t
          /\ availableTools' = Published(ci, t)
          /\ IF ci < nServers
             THEN /\ ci' = ci + 1
                  /\ Issue({ Req("connect", ci + 1) })
                  /\ pc' = "connect"
                  /\ UNCHANGED <<query, hist, error, result, ki>>
             ELSE /\ ci' = ci
                  /\ IssueFirstModelCall(<< UserMessage(Query) >>)
    /\ UNCHANGED <<env, aux, closes, page, conn, servers>>

\* the tools/list request rejects
ListFail ==
    /\ pc = "list"
    /\ Raise("ConnectionError")
    /\ UNCHANGED <<env, aux, closes, page, conns, query, hist>>

(***************************************************************************)
(* processQuery and executeTool                                            *)
(***************************************************************************)
\* mutants of LoopEnds: the test inverted; the loop left after every turn; a
\* cap of one tool turn
LoopEndsInverted(used) == used
LoopEndsAlways(used) == TRUE
LoopEndsCapped(used) == ~used \/ modelCalls >= 1

\* if (!usedTool) break;
LoopEnds(used) == ~used

\* processQuery from block `from` of `resp` on, with the steps `st` and the
\* log `msgs`, up to its next await or its return
Proceed(resp, from, st, msgs, used) ==
    LET sc == Scan(resp, from, st)
    IN /\ steps' = sc.steps
       /\ messages' = msgs
       /\ IF sc.tool # 0
          THEN \* a tool-use block: executeTool is called, its loop awaits the
               \* first connection's tools/call
               /\ usedTool' = TRUE
               /\ block' = sc.tool
               /\ si' = 1
               /\ toolInvocations' = toolInvocations + 1
               /\ Issue(CallRequests(1))
               /\ pc' = "call"
               /\ UNCHANGED <<pq, modelCalls, sent, result, ki>>
          ELSE IF ~LoopEnds(used)
          THEN \* the for loop ended in a turn that used a tool: next model call
               /\ modelCalls' = modelCalls + 1
               /\ sent' = Append(sent, msgs)
               /\ Issue({ Req("messages.create", 0) })
               /\ pc' = "model"
               /\ UNCHANGED <<pq, usedTool, block, si, toolInvocations, result, ki>>
          ELSE \* if (!usedTool) break; return steps; runQuery calls cleanup()
               /\ pq' = "returned"
               /\ result' = sc.steps
               /\ ki' = 1
               /\ Issue({ Req("close", servers[1]) })
               /\ pc' = "close"
               /\ UNCHANGED <<usedTool, block, si, modelCalls, toolInvocations, sent>>

\* the reasoning-model call resolves with `resp`: a new iteration of while (true)
ModelReturnWithin(resp, cap) ==
    /\ pc = "model"
    /\ looping => HasToolUse(resp)
    /\ HasToolUse(resp) => modelCalls < cap
    /\ response' = resp
    /\ responses' = Append(responses, resp)
    /\ Proceed(resp, 1, steps, messages, FALSE)
    /\ UNCHANGED <<env, aux, closes, page, conns, toolResults, calls, error>>

ModelReturn(resp) == ModelReturnWithin(resp, MaxTurns)

\* mutant of ModelRaise: the rejection is caught inside processQuery, which
\* returns the steps gathered so far
ModelRaiseCaught ==
    /\ pc = "model"
    /\ pq' = "returned"
    /\ result' = steps
    /\ ki' = 1
    /\ Issue({ Req("close", servers[1]) })
    /\ pc' = "close"
    /\ UNCHANGED <<env, aux, closes, page, conns, hist, error>>
    /\ UNCHANGED <<steps, messages, response, usedTool, block, si, modelCalls, toolInvocations>>

\* the reasoning-model call rejects: processQuery and runQuery rethrow
ModelRaise ==
    /\ pc = "model"
    /\ pq' = "raised"
    /\ Raise("ModelCallError")
    /\ UNCHANGED <<env, aux, closes, page, conns, hist>>
    /\ UNCHANGED <<steps, messages, response, usedTool, block, si, modelCalls, toolInvocations>>

\* executeTool returned `toolResult` for block `block` of `response`
FinishTool(toolResult) ==
    /\ toolResults' = Append(toolResults, toolResult)
    /\ Proceed(response, ResumeAt(response, block),
               Append(steps, Step("tool_result", toolResult)),
               PushTurn(messages, response, response[block].id, toolResult),
               usedTool)
    /\ UNCHANGED <<response, responses>>

CallRecord(ok, content) ==
    [turn |-> modelCalls, invocation |-> toolInvocations, server |-> servers[si],
     block |-> block, name |-> response[block].name, ok |-> ok, content |-> content]

\* mutant of NextServer: a connection is skipped
NextServerSkips(i) == i + 2

\* the position in this.servers tried after position `i` failed
NextServer(i) == i + 1

\* the tools/call request to connection `si` rejects (the handler threw an
\* McpError, or the request failed in transit): catch, continue
CallFail ==
    /\ pc = "call"
    /\ si <= Len(servers)
    /\ calls' = Append(calls, CallRecord(FALSE, AbsentContent))
    /\ IF NextServer(si) <= Len(servers)
       THEN /\ si' = NextServer(si)
            /\ Issue(CallRequests(NextServer(si)))
            /\ UNCHANGED <<pq, steps, messages, response, usedTool, block>>
            /\ UNCHANGED <<modelCalls, toolInvocations, responses, sent, toolResults>>
            /\ UNCHANGED <<pc, result, ki>>
       ELSE FinishTool(NotFound(response[block].name))
    /\ UNCHANGED <<env, aux, closes, page, conns, error>>

\* the tools/call request to connection `si` rejects because the handler threw
CallThrows ==
    /\ pc = "call"
    /\ ~MathCall(response[block].name, response[block].input).ok
    /\ CallFail

\* the tools/call request to connection `si` resolves with the handler's result
CallReturn ==
    /\ pc = "call"
    /\ si <= Len(servers)
    /\ LET r == MathCall(response[block].name, response[block].input)
       IN /\ r.ok
          /\ calls' = Append(calls, CallRecord(TRUE, ListContent(r.content)))
          /\ FinishTool(NormalizeResult(ListContent(r.content)))
    /\ UNCHANGED <<env, aux, closes, page, conns, error>>

\* the tools/call request to connection `si`, a server of any kind, resolves
\* with a result whose content is `content`
CallResolves(content) ==
    /\ pc = "call"
    /\ si <= Len(servers)
    /\ calls' = Append(calls, CallRecord(TRUE, content))
    /\ FinishTool(NormalizeResult(content))
    /\ UNCHANGED <<env, aux, closes, page, conns, error>>

(***************************************************************************)
(* cleanup                                                                 *)
(***************************************************************************)
\* after the close of connection `ki`: the next one, or clear and return
AfterClose ==
    IF ki < Len(servers)
    THEN /\ ki' = ki + 1
         /\ Issue({ Req("close", servers[ki + 1]) })
         /\ UNCHANGED <<servers, availableTools, pc>>
    ELSE /\ Issue({})
         /\ servers' = <<>>
         /\ availableTools' = <<>>
         /\ pc' = "returned"
         /\ ki' = ki

\* mutant of CloseFail: the rejection of close() is not caught
CloseFailRaises ==
    /\ pc = "close"
    /\ closes' = Append(closes, [server |-> servers[ki], ok |-> FALSE])
    /\ Raise("CloseError")
    /\ UNCHANGED <<env, aux, conns, query, hist, page>>

\* await client.close() resolves
CloseOk ==
    /\ pc = "close"
    /\ conn' = [conn EXCEPT ![servers[ki]] = "closed"]
    /\ closes' = Append(closes, [server |-> servers[ki], ok |-> TRUE])
    /\ AfterClose
    /\ UNCHANGED <<env, aux, page, ci, tools, query, hist, error, result>>

\* await client.close() rejects: .catch(() => { })
CloseFail ==
    /\ pc = "close"
    /\ conn' = conn
    /\ closes' = Append(closes, [server |-> servers[ki], ok |-> FALSE])
    /\ AfterClose
    /\ UNCHANGED <<env, aux, page, ci, tools, query, hist, error, result>>

(***************************************************************************)
(* MCPUI.handleRun after its await of runQuery                             *)
(***************************************************************************)
\* String(err) of an Error: its name and its message
String(err) == <<"Error: ", err>>

\* mutant of ErrorStep: the failure is displayed without the error marker
ErrorStepNoMarker(err) == Step("text", String(err))

\* the marker that opens the content of an error step (a cross mark, U+274C)
ErrorMarker == "[x] Error: "

\* { type: 'text', content: ErrorMarker + String(err) }
ErrorStep(err) == Step("text", <<ErrorMarker>> \o String(err))

\* runQuery resolved: setSteps(result); setLoading(false);
HandleRunDone ==
    /\ pc = "returned"
    /\ hr = "running"
    /\ hr' = "done"
    /\ uiSteps' = result
    /\ loading' = FALSE
    /\ UNCHANGED <<env, aux, closes, conns, query, hist, pc, error, result, ki, inflight>>

\* runQuery rejected: catch (err) { setSteps([...]) } setLoading(false);
HandleRunCatch ==
    /\ pc = "raised"
    /\ hr = "running"
    /\ hr' = "done"
    /\ uiSteps' = << ErrorStep(error) >>
    /\ loading' = FALSE
    /\ UNCHANGED <<env, aux, closes, conns, query, hist, pc, error, result, ki, inflight>>

Responses(turn) ==
    { MkResponse(shape, call, turn) : shape \in ResponseShapes, call \in ToolCalls }

Next ==
    \/ StartNoKey
    \/ StartNoConfig
    \/ StartNoServers
    \/ StartConnect
    \/ ConnectOk
    \/ ConnectFail
    \/ ListOk
    \/ ListFail
    \/ \E resp \in Responses(modelCalls) : ModelReturn(resp)
    \/ ModelRaise
    \/ CallFail
    \/ CallReturn
    \/ CloseOk
    \/ CloseFail
    \/ HandleRunDone
    \/ HandleRunCatch

Spec == Init /\ [][Next]_vars

\* the runs in which the credential and the configuration are present and
\* every request to the reasoning model and every connect, tools/list and close
\* resolves (a tools/call may still reject), and every awaited request completes
InitReliable == Init /\ apiKey /\ cfgOk /\ nServers > 0

NextReliable ==
    \/ StartConnect
    \/ ConnectOk
    \/ ListOk
    \/ \E resp \in Responses(modelCalls) : ModelReturn(resp)
    \/ CallFail
    \/ CallReturn
    \/ CloseOk
    \/ HandleRunDone

FairSpec == InitReliable /\ [][NextReliable]_vars /\ WF_vars(NextReliable)

(***************************************************************************)
(* Repeated invocation: the queries in which the reasoning model requests  *)
(* add or multiply in up to MaxTurns turns, one block per response, every  *)
(* request of the client is answered and a tools/call fails only when the  *)
(* handler throws.                                                         *)
(***************************************************************************)
ArgRecords ==
    [a : 0..MaxArg, b : 0..MaxArg] \cup [a : 0..MaxArg]

TwiceCalls == { [name |-> n, input |-> r] : n \in {"add", "multiply"}, r \in ArgRecords }

OneBlockShapes == [1..1 -> BlockTypes]

TwiceResponses(turn) ==
    { MkResponse(shape, call, turn) : shape \in OneBlockShapes, call \in TwiceCalls }

InitTwice == Init /\ apiKey /\ cfgOk /\ nServers > 0 /\ ~looping

NextTwice ==
    \/ StartConnect
    \/ ConnectOk
    \/ ListOk
    \/ \E resp \in TwiceResponses(modelCalls) : ModelReturnWithin(resp, MaxTurns + 1)
    \/ CallThrows
    \/ CallReturn
    \/ CloseOk
    \/ HandleRunDone

TwiceSpec == InitTwice /\ [][NextTwice]_vars

(***************************************************************************)
(* Result normalization: the queries in which the reasoning model requests *)
(* one tool and the first server answers the tools/call with a result of   *)
(* any content.                                                            *)
(***************************************************************************)
ContentItems ==
    { [type |-> "text", text |-> <<"out">>],
      [type |-> "text", text |-> <<>>],
      [type |-> "image", data |-> "AAAA"] }

ItemLists == UNION { [1..n -> ContentItems] : n \in 0..MaxItems }

ResultContents ==
    { AbsentContent, StringContent(<<"done">>), StringContent(<<>>),
      ObjectContent(<<"value">>) }
    \cup { ListContent(items) : items \in ItemLists }

NormResponses(turn) ==
    { MkResponse(shape, [name |-> "lookup", input |-> [q |-> 1]], turn) :
        shape \in OneBlockShapes }

NextNorm ==
    \/ StartConnect
    \/ ConnectOk
    \/ ListOk
    \/ \E resp \in NormResponses(modelCalls) : ModelReturn(resp)
    \/ \E content \in ResultContents : CallResolves(content)
    \/ CloseOk
    \/ HandleRunDone

NormSpec == InitTwice /\ [][NextNorm]_vars

(***************************************************************************)
(* Argument resolution: serverInfo.args.map(...) of connectToServers for   *)
(* one descriptor, one action per element.                                 *)
(***************************************************************************)
OptionFlags == {"-y", "--port"}

ArgValues ==
    { Arg(FALSE, <<".", "mcp-tools", "math-server.js">>),
      Arg(FALSE, <<"server.js">>),
      Arg(FALSE, <<"..", "tools", "server.js">>),
      Arg(TRUE, <<"opt", "server.js">>) }
    \cup { Arg(FALSE, <<f>>) : f \in OptionFlags }

ArgLists == UNION { [1..n -> ArgValues] : n \in 0..MaxArgList }

Dirs == { ProjectDir, Arg(TRUE, <<"srv", "www">>) }

\* path.isAbsolute(arg)
isAbsolute(a) == a.abs

\* the segments of `segs` from position i on applied to the directory `acc`
RECURSIVE Walk(_, _, _)
Walk(acc, segs, i) ==
    IF i > Len(segs) THEN acc
    ELSE IF segs[i] = "." THEN Walk(acc, segs, i + 1)
    ELSE IF segs[i] = ".."
         THEN Walk(IF acc = <<>> THEN acc ELSE SubSeq(acc, 1, Len(acc) - 1), segs, i + 1)
    ELSE Walk(Append(acc, segs[i]), segs, i + 1)

\* path.resolve(dir, a) for a relative `a`
resolve(dir, a) == Arg(TRUE, Walk(dir.segs, a.segs, 1))

\* arg => path.isAbsolute(arg) ? arg : path.resolve(process.cwd(), arg)
ResolvedArg(dir, a) == IF isAbsolute(a) THEN a ELSE resolve(dir, a)

InitArgs ==
    /\ InitMain /\ apiKey /\ cfgOk /\ nServers = 1 /\ ~looping
    /\ cwd \in Dirs
    /\ serverArgs \in ArgLists
    /\ resolvedArgs = <<>>
    /\ ClientIdle
    /\ SocketIdle
    /\ ConcIdle

\* the callback of map is applied to the next element of serverInfo.args
MapArg ==
    /\ Len(resolvedArgs) < Len(serverArgs)
    /\ resolvedArgs' = Append(resolvedArgs, ResolvedArg(cwd, serverArgs[Len(resolvedArgs) + 1]))
    /\ UNCHANGED <<main, cwd, serverArgs, clientVars, socketVars, concVars>>

NextArgs == MapArg

ArgsSpec == InitArgs /\ [][NextArgs]_vars

(***************************************************************************)
(* Primality: the queries in which the reasoning model requests is_prime   *)
(* of an integer of -1..MaxN and every request is answered.                *)
(***************************************************************************)
PrimeCalls == { [name |-> "is_prime", input |-> [n |-> k]] : k \in -1..MaxN }

PrimeResponses(turn) ==
    { MkResponse(shape, call, turn) : shape \in OneBlockShapes, call \in PrimeCalls }

NextPrime ==
    \/ StartConnect
    \/ ConnectOk
    \/ ListOk
    \/ \E resp \in PrimeResponses(modelCalls) : ModelReturn(resp)
    \/ CallReturn
    \/ CloseOk
    \/ HandleRunDone

PrimeSpec == InitTwice /\ [][NextPrime]_vars

(***************************************************************************)
(* Method calls: connectToServers, processQuery and cleanup called on one  *)
(* client in any order, each call awaited before the next; every close     *)
(* resolves.  One action per call.                                         *)
(***************************************************************************)
NoToolsError == "No tools available. Please call connectToServers() first."

\* mutant of NoTools: processQuery does not look at the tool list
NoToolsNever(list) == FALSE

\* this.availableTools.length === 0
NoTools(list) == Len(list) = 0

\* this.servers.set(name, connection): the value of an existing key is
\* replaced in place, a new key is added at the end
MapSet(map, name, handle) ==
    IF \E i \in DOMAIN map : map[i].name = name
    THEN [i \in DOMAIN map |-> IF map[i].name = name
                               THEN [name |-> name, handle |-> handle] ELSE map[i]]
    ELSE Append(map, [name |-> name, handle |-> handle])

\* this.servers after servers 1..m were connected on transports base+1..base+m
RECURSIVE Registered(_, _, _, _)
Registered(map, j, m, base) ==
    IF j > m THEN map
    ELSE Registered(MapSet(map, j, base + j), j + 1, m, base)

\* the local list `tools` after `m` servers listed their tools
ListedTools(m, adv) ==
    IF adv THEN [i \in 1..(m * Len(MathTools)) |->
                    [name |-> MathTools[((i - 1) % Len(MathTools)) + 1]]]
    ELSE <<>>

\* connectToServers: servers 1..k connect and list their tools (all of them
\* advertise the math tools, or none advertises a tool); with mode "connect"
\* the connect of server k+1 rejects, with mode "list" its tools/list does
ClientConnect(k, mode, adv) ==
    /\ nCalls < MaxCalls
    /\ mode = "ok" <=> k = nServers
    /\ LET m == IF mode = "list" THEN k + 1 ELSE k
       IN /\ transports' = transports \o [j \in 1..m |-> [server |-> j, state |-> "open"]]
          /\ clientServers' = Registered(clientServers, 1, m, Len(transports))
    /\ clientTools' = IF mode = "ok" THEN ListedTools(nServers, adv) ELSE clientTools
    /\ lastCall' = CallOutcome("connectToServers", mode # "ok",
                               IF mode = "ok" THEN "" ELSE "ConnectionError",
                               Len(clientTools), 0)
    /\ nCalls' = nCalls + 1
    /\ UNCHANGED <<main, argVars, socketVars, concVars>>

\* processQuery: it throws on an empty tool list; otherwise it calls the
\* reasoning model first and goes on as in runQuery, to return or to raise
ClientProcessQuery(raises) ==
    /\ nCalls < MaxCalls
    /\ lastCall' = IF NoTools(clientTools)
                   THEN CallOutcome("processQuery", TRUE, NoToolsError, Len(clientTools), 0)
                   ELSE CallOutcome("processQuery", raises,
                                    IF raises THEN "ModelCallError" ELSE "",
                                    Len(clientTools), 1)
    /\ nCalls' = nCalls + 1
    /\ UNCHANGED <<main, argVars, socketVars, concVars, transports, clientServers, clientTools>>

\* cleanup: every connection of this.servers is closed, then the registry and
\* the tool list are emptied
ClientCleanup ==
    /\ nCalls < MaxCalls
    /\ transports' = [h \in DOMAIN transports |->
                        IF \E i \in DOMAIN clientServers : clientServers[i].handle = h
                        THEN [transports[h] EXCEPT !.state = "closed"]
                        ELSE transports[h]]
    /\ clientServers' = <<>>
    /\ clientTools' = <<>>
    /\ lastCall' = CallOutcome("cleanup", FALSE, "", Len(clientTools), 0)
    /\ nCalls' = nCalls + 1
    /\ UNCHANGED <<main, argVars, socketVars, concVars>>

InitClient ==
    /\ InitMain /\ apiKey /\ cfgOk /\ nServers > 0 /\ ~looping
    /\ AuxIdle

NextClient ==
    \/ \E k \in 0..nServers, mode \in {"ok", "connect", "list"}, adv \in BOOLEAN :
          ClientConnect(k, mode, adv)
    \/ \E raises \in BOOLEAN : ClientProcessQuery(raises)
    \/ ClientCleanup

ClientSpec == InitClient /\ [][NextClient]_vars

(***************************************************************************)
(* useWorkspaceSocket: the effect that opens the socket, its handlers, the *)
(* 100 ms reply timers and the effect's cleanup.  A message is delivered   *)
(* only while the socket is open; the k-th message received carries the    *)
(* message_id k.                                                           *)
(***************************************************************************)
\* appendMessage(text, type)
appendMessage(type) == hookMessages' = Append(hookMessages, type)

\* ws.send(JSON.stringify(msg))
Send(msg) == wsSent' = Append(wsSent, [type |-> msg.type, message_id |-> msg.message_id,
                                       state |-> readyState])

Reply(type, id) == [type |-> type, message_id |-> id]

\* the effect has run: new WebSocket(...), the handlers are set
InitSocket ==
    /\ InitMain /\ apiKey /\ cfgOk /\ nServers = 1 /\ ~looping
    /\ ArgsIdle /\ ClientIdle /\ ConcIdle
    /\ hasStructure \in BOOLEAN
    /\ mounted = TRUE
    /\ readyState = "CONNECTING"
    /\ connected = FALSE
    /\ timers = {}
    /\ wsSent = <<>>
    /\ hookMessages = <<>>
    /\ nReceived = 0

\* ws.onopen
OnOpen ==
    /\ readyState = "CONNECTING"
    /\ readyState' = "OPEN"
    /\ connected' = mounted
    /\ appendMessage("system")
    /\ IF hasStructure THEN Send(Reply("initialize", 0)) ELSE wsSent' = wsSent
    /\ UNCHANGED <<main, argVars, clientVars, concVars, hasStructure, mounted, timers, nReceived>>

\* ws.onmessage with a greeting
OnGreeting ==
    /\ readyState = "OPEN"
    /\ nReceived < MaxMessages
    /\ nReceived' = nReceived + 1
    /\ appendMessage("system")
    /\ UNCHANGED <<main, argVars, clientVars, concVars, hasStructure, mounted, readyState, connected,
                   timers, wsSent>>

\* ws.onmessage with a folder read or a folder update request: the response
\* is built with data.message_id and its send is put on a 100 ms timer
OnRequest(type) ==
    /\ readyState = "OPEN"
    /\ nReceived < MaxMessages
    /\ nReceived' = nReceived + 1
    /\ appendMessage("reply-request")
    /\ timers' = timers \cup { Reply(type, nReceived + 1) }
    /\ UNCHANGED <<main, argVars, clientVars, concVars, hasStructure, mounted, readyState, connected,
                   wsSent>>

\* ws.onmessage with any other message, or with one that cannot be parsed
OnOther ==
    /\ readyState = "OPEN"
    /\ nReceived < MaxMessages
    /\ nReceived' = nReceived + 1
    /\ appendMessage("received")
    /\ UNCHANGED <<main, argVars, clientVars, concVars, hasStructure, mounted, readyState, connected,
                   timers, wsSent>>

\* a reply timer fires: ws.send(JSON.stringify(response)); appendMessage(...);
\* the callback does not look at ws.readyState and no timer is ever cleared
TimerFires(t) ==
    /\ t \in timers
    /\ timers' = timers \ {t}
    /\ Send(t)
    /\ appendMessage("reply")
    /\ UNCHANGED <<main, argVars, clientVars, concVars, hasStructure, mounted, readyState, connected,
                   nReceived>>

\* ws.onerror
OnError ==
    /\ readyState \in {"CONNECTING", "OPEN"}
    /\ nReceived < MaxMessages
    /\ nReceived' = nReceived + 1
    /\ appendMessage("system")
    /\ UNCHANGED <<main, argVars, clientVars, concVars, hasStructure, mounted, readyState, connected,
                   timers, wsSent>>

\* the connection ends (closed by the server, lost, or closed after ws.close()):
\* ws.onclose
OnClose ==
    /\ readyState \in {"CONNECTING", "OPEN", "CLOSING"}
    /\ readyState' = "CLOSED"
    /\ connected' = FALSE
    /\ appendMessage("system")
    /\ UNCHANGED <<main, argVars, clientVars, concVars, hasStructure, mounted, timers, wsSent, nReceived>>

\* the effect's cleanup (unmount): ws.close(); setSocket(null); setConnected(false)
Unmount ==
    /\ mounted
    /\ mounted' = FALSE
    /\ readyState' = IF readyState = "CLOSED" THEN "CLOSED" ELSE "CLOSING"
    /\ connected' = FALSE
    /\ UNCHANGED <<main, argVars, clientVars, concVars, hasStructure, timers, wsSent, hookMessages,
                   nReceived>>

NextSocket ==
    \/ OnOpen
    \/ OnGreeting
    \/ \E type \in {"folder_response", "folder_updated"} : OnRequest(type)
    \/ OnOther
    \/ \E t \in timers : TimerFires(t)
    \/ OnError
    \/ OnClose
    \/ Unmount

SocketSpec == InitSocket /\ [][NextSocket]_vars

(***************************************************************************)
(* Claims                                                                  *)
(***************************************************************************)
NoConnectionOpen == \A i \in DOMAIN conn : conn[i] # "open"

\* C1: when a reasoning-model call raises, on the first call or on a later
\* turn, every connection connectToServers opened has been closed by the time
\* runQuery has finished raising.
C1_TeardownOnModelError ==
    (pc = "raised" /\ error = "ModelCallError") => NoConnectionOpen

\* C2: when discovery fails at the k-th server (its connect or its tools/list
\* raises), every connection opened for the servers 1..k has been closed by
\* the time runQuery has propagated the failure.
C2_TeardownOnDiscoveryError ==
    (pc = "raised" /\ error = "ConnectionError") => NoConnectionOpen

IsText(b) == b.type = "text"
IsToolUse(b) == b.type = "tool_use"
IsToolUseStep(s) == s.type = "tool_use"
IsToolResultStep(s) == s.type = "tool_result"

\* one text step per text block of `blocks`, in the blocks' order
TextSteps(blocks) ==
    LET t == SelectSeq(blocks, IsText)
    IN [i \in DOMAIN t |-> Step("text", t[i].text)]

LastResponse == responses[Len(responses)]

\* C3: when the first response of the reasoning model holds text blocks only,
\* processQuery returns exactly one text step per text block, in the blocks'
\* order, after exactly one model call and no tool invocation.
C3_TextOnlyQuery ==
    (responses # <<>> /\ ~HasToolUse(responses[1])) =>
        /\ pq = "returned"
        /\ result = TextSteps(responses[1])
        /\ modelCalls = 1
        /\ toolInvocations = 0
        /\ calls = <<>>

C3_Witness ==
    /\ pq = "returned"
    /\ Len(responses) = 1
    /\ Len(responses[1]) = 2
    /\ ~HasToolUse(responses[1])
    /\ Len(result) = 2

\* the steps of one turn: the text steps of the blocks `texts`, the tool_use
\* step of the first tool-use block and the tool_result step of `tr` (a
\* sequence holding the tool result, empty while there is none)
TurnSteps(resp, texts, tr) ==
    IF ~HasToolUse(resp) THEN TextSteps(resp)
    ELSE TextSteps(texts) \o << ToolUseStep(resp[FirstToolUse(resp)]) >>
                          \o [i \in DOMAIN tr |-> Step("tool_result", tr[i])]

ResultOfTurn(k) == IF k <= Len(toolResults) THEN << toolResults[k] >> ELSE <<>>

\* the trace in which a tool turn contributes the text blocks before its first
\* tool-use block
RECURSIVE TraceFrom(_)
TraceFrom(k) ==
    IF k > Len(responses) THEN <<>>
    ELSE TurnSteps(responses[k],
                   SubSeq(responses[k], 1, FirstToolUse(responses[k]) - 1),
                   ResultOfTurn(k)) \o TraceFrom(k + 1)

\* the trace in which a tool turn contributes all its text blocks
RECURSIVE ClaimedTraceFrom(_)
ClaimedTraceFrom(k) ==
    IF k > Len(responses) THEN <<>>
    ELSE TurnSteps(responses[k], responses[k], ResultOfTurn(k)) \o ClaimedTraceFrom(k + 1)

\* C4 (as amended): the step trace is, turn after turn, the text steps of the
\* turn's text blocks that precede its first tool-use block, then exactly one
\* tool_use step, then exactly one tool_result step, and only then the steps of
\* the next turn; processQuery returns that trace.
C4_TraceOrder ==
    /\ steps = TraceFrom(1)
    /\ pq = "returned" => result = TraceFrom(1)

\* C4 (as claimed): the trace of a tool turn holds the text steps of all the
\* turn's text blocks, then the tool_use step, then the tool_result step.
C4_AllTextBlocks ==
    pq = "returned" => result = ClaimedTraceFrom(1)

C4_Witness ==
    /\ pq = "returned"
    /\ Len(responses) = 2
    /\ responses[1][1].type = "text"
    /\ FirstToolUse(responses[1]) = 2
    /\ Len(responses[2]) > 0
    /\ Len(result) = 3 + Len(responses[2])

\* C5: per response at most one tool invocation happens, and it is for the
\* first tool-use block in block order; the later tool-use blocks of the
\* response produce no tool_use step, no tool_result step and no invocation.
C5_OneToolPerResponse ==
    /\ toolInvocations <= Len(SelectSeq(responses, HasToolUse))
    /\ \A j \in DOMAIN calls :
          /\ calls[j].turn <= Len(responses)
          /\ calls[j].block = FirstToolUse(responses[calls[j].turn])
          /\ calls[j].name # LaterCall.name
          /\ \A i \in DOMAIN calls :
                calls[i].turn = calls[j].turn => calls[i].invocation = calls[j].invocation
    /\ Len(SelectSeq(steps, IsToolUseStep)) = Len(SelectSeq(responses, HasToolUse))
    /\ Len(SelectSeq(steps, IsToolResultStep)) <= Len(SelectSeq(responses, HasToolUse))
    /\ \A i \in DOMAIN steps :
          steps[i].type = "tool_use" => steps[i].content[2] # LaterCall.name

C5_Witness ==
    \E k \in DOMAIN toolResults :
        /\ k < Len(responses)
        /\ Len(SelectSeq(responses[k], IsToolUse)) = 2

\* C6: processQuery returns exactly when a response holds no tool-use block,
\* and returns the steps collected over all turns; a completed query made one
\* model call more than tool invocations, and exactly one tool invocation
\* happens between two consecutive model calls.
C6_ReturnsOnNoToolUse ==
    /\ pq = "returned" <=> (responses # <<>> /\ ~HasToolUse(LastResponse))
    /\ pq = "returned" =>
          /\ result = steps
          /\ Len(SelectSeq(result, IsToolResultStep)) = toolInvocations
          /\ modelCalls = toolInvocations + 1
    /\ pc = "model" => /\ modelCalls = toolInvocations + 1
                       /\ Len(toolResults) = toolInvocations
    /\ pc = "call" => /\ modelCalls = toolInvocations
                      /\ Len(toolResults) = toolInvocations - 1

C6_Witness ==
    /\ pq = "returned"
    /\ modelCalls = 2
    /\ toolInvocations = 1
    /\ Len(result) >= 2

\* C7: processQuery has no turn cap.  When every external call returns and the
\* reasoning model comes to answer without a tool-use block, processQuery
\* eventually returns; when the model puts a tool-use block in every response,
\* processQuery never returns and goes on issuing model calls (up to the
\* MaxTurns calls explored).
C7_NoTurnCap ==
    /\ [](looping => pq # "returned")
    /\ (pq = "running") ~> \/ ~looping /\ pq = "returned"
                           \/ looping /\ modelCalls = MaxTurns

C7_Witness ==
    /\ looping
    /\ pc = "model"
    /\ modelCalls = MaxTurns
    /\ toolInvocations = MaxTurns - 1

\* the tools/call requests of the v-th executeTool call, in the order issued
CallsOf(v) == SelectSeq(calls, LAMBDA c : c.invocation = v)

\* the tool-use block the v-th executeTool call was made for
BlockOf(v) == responses[CallsOf(v)[1].turn][CallsOf(v)[1].block]

Completed(v) == v <= Len(toolResults)

AllFailed(v) == \A j \in DOMAIN CallsOf(v) : ~CallsOf(v)[j].ok

\* C8: executeTool tries the connections one at a time in registration order
\* (the j-th connection registered is that of the j-th configured server);
\* its result is the normalized result of the first server whose tools/call
\* returns without error, every earlier server was called exactly once and
\* failed, and no server after the winning one receives the call.
C8_FirstServerWins ==
    \A v \in 1..toolInvocations :
        LET cs == CallsOf(v)
        IN /\ Len(cs) <= nServers
           /\ \A j \in DOMAIN cs :
                 /\ cs[j].server = j
                 /\ j < Len(cs) => ~cs[j].ok
                 /\ cs[j].ok =>
                       /\ Completed(v)
                       /\ toolResults[v] =
                            Normalize(MathCall(BlockOf(v).name, BlockOf(v).input).content)
           /\ (Completed(v) /\ AllFailed(v)) => Len(cs) = nServers
           /\ (~Completed(v) /\ pc = "call") => (AllFailed(v) /\ Len(cs) = si - 1)

C8_Witness ==
    \E v \in DOMAIN toolResults :
        /\ Len(CallsOf(v)) = 2
        /\ ~CallsOf(v)[1].ok
        /\ CallsOf(v)[2].ok
        /\ BlockOf(v).name = "add"

HasToken(text, token) == \E i \in DOMAIN text : text[i] = token

\* C9: when the tools/call request fails on every connected server, executeTool
\* does not raise but returns a string holding the tool name and a "not found"
\* indication; processQuery records that string as a tool_result step and goes
\* on to the next model call.
C9_NotFoundIsSoft ==
    \A v \in DOMAIN toolResults :
        AllFailed(v) =>
            /\ HasToken(toolResults[v], BlockOf(v).name)
            /\ HasToken(toolResults[v], "' not found in any server.")
            /\ \E i \in DOMAIN steps : steps[i] = Step("tool_result", toolResults[v])
            /\ modelCalls >= v + 1
            /\ Len(sent) >= v + 1
            /\ error \in {"", "ModelCallError"}

C9_Witness ==
    \E v \in DOMAIN toolResults :
        /\ AllFailed(v)
        /\ BlockOf(v).name = "lookup"
        /\ Len(CallsOf(v)) = 2
        /\ pc = "model"

\* C10: a factorial call with n greater than 170, routed through executeTool to
\* the math server, yields a tool_result string saying that the number is too
\* large.
C10_FactorialTooLarge ==
    \A v \in DOMAIN toolResults :
        (BlockOf(v).name = "factorial" /\ BlockOf(v).input.n > FactorialLimit) =>
            HasToken(toolResults[v], "Number too large (would exceed precision)")


\* a reasoning-model call has ended without a response
ModelCallFailed == pc # "model" /\ modelCalls > Len(responses)

\* C11: a failed reasoning-model call is not caught in processQuery: processQuery
\* raises, the steps gathered in earlier turns are not delivered (nothing is
\* returned), and after the failure no model call is issued and no tool is invoked
C11_ModelFailurePropagates ==
    /\ [](ModelCallFailed =>
            /\ pq = "raised"
            /\ pc = "raised"
            /\ error = "ModelCallError"
            /\ result = <<>>)
    /\ [][ModelCallFailed =>
            UNCHANGED <<pq, result, modelCalls, toolInvocations, sent, calls, toolResults>>]_vars

\* the second model call failed after a tool turn had gathered steps
C11_Witness ==
    /\ ModelCallFailed
    /\ modelCalls = 2
    /\ toolInvocations = 1
    /\ Len(steps) >= 2
    /\ result = <<>>


\* the failures runQuery raises: credential, configuration, empty tool list,
\* connection or discovery, reasoning-model call
RunQueryErrors ==
    { "Anthropic API key is required.", "ConfigurationError",
      "No tools available. Please call connectToServers() first.",
      "ConnectionError", "ModelCallError" }

\* C12: whenever runQuery fails, handleRun catches the failure: the displayed
\* step list becomes exactly one text step whose content starts with the error
\* marker and ends with the failure's message, handleRun ends normally, and
\* loading is false once handleRun is done, after a failed and after a
\* successful run alike
C12_FailureDisplayed ==
    /\ [](/\ hr = "running" => loading
          /\ hr = "done" => ~loading /\ pc \in {"raised", "returned"}
          /\ pc = "raised" => error \in RunQueryErrors /\ hr # "idle"
          /\ hr = "done" /\ pc = "raised" =>
                /\ Len(uiSteps) = 1
                /\ uiSteps[1].type = "text"
                /\ uiSteps[1].content[1] = ErrorMarker
                /\ uiSteps[1].content[Len(uiSteps[1].content)] = error
          /\ hr = "done" /\ pc = "returned" => uiSteps = result /\ error = "")
    /\ [][pc = "raised" => pc' = "raised" /\ hr' = "done" /\ error' = error]_vars

\* handleRun is done after a failed reasoning-model call of a later turn
C12_Witness ==
    /\ hr = "done"
    /\ pc = "raised"
    /\ error = "ModelCallError"
    /\ Len(steps) >= 2
    /\ ~loading


IsPrefix(s, t) == Len(s) <= Len(t) /\ SubSeq(t, 1, Len(s)) = s

ToolResultStep(k) == SelectSeq(steps, IsToolResultStep)[k]

\* C14: after the k-th tool execution the log holds, at positions 2k and
\* 2k+1, an assistant message whose content is the complete response of that
\* turn and then a user message of one tool_result block whose tool_use_id is
\* the id of the executed tool-use block and whose content is the content of
\* the k-th tool_result step
C14_TurnPair ==
    \A k \in DOMAIN toolResults :
        /\ Len(messages) >= 2 * k + 1
        /\ messages[2 * k] = [role |-> "assistant", content |-> responses[k]]
        /\ messages[2 * k + 1].role = "user"
        /\ Len(messages[2 * k + 1].content) = 1
        /\ LET m == messages[2 * k + 1].content[1]
           IN /\ m.type = "tool_result"
              /\ m.id = BlockOf(k).id
              /\ BlockOf(k).type = "tool_use"
              /\ m.text = ToolResultStep(k).content
              /\ m.text = toolResults[k]

\* a tool was executed for a response that holds a block after its tool-use block
C14_Witness ==
    /\ Len(toolResults) = 1
    /\ Len(responses[1]) = 2
    /\ responses[1][1].type = "tool_use"
    /\ Len(messages) = 3


\* C15: after a successful connectToServers the tool names of the aggregate
\* tool list are unique across all connected servers
C15_UniqueToolNames ==
    \A i, j \in DOMAIN availableTools :
        availableTools[i].name = availableTools[j].name => i = j

\* the connection phase has ended with a failed connect or tools/list request
DiscoveryFailed == pc = "raised" /\ error = "ConnectionError"

\* C16: discovery is all-or-nothing: when connecting to a server or listing
\* its tools fails, connectToServers raises, no later server is connected or
\* listed, processQuery is not run, and the client's tool list holds no tool;
\* a published tool list holds the tools of every configured server
C16_AllOrNothing ==
    /\ [](/\ DiscoveryFailed =>
                /\ availableTools = <<>>
                /\ pq = "idle"
                /\ modelCalls = 0
                /\ ci \in 1..nServers
                /\ Len(servers) \in {ci - 1, ci}
                /\ Len(tools) = (ci - 1) * Len(MathTools)
                /\ \A i \in (ci + 1)..nServers : conn[i] = "none"
          /\ availableTools # <<>> =>
                /\ Len(servers) = nServers
                /\ availableTools = tools
                /\ Len(tools) = nServers * Len(MathTools))
    /\ [][DiscoveryFailed => UNCHANGED <<conns, query>>]_vars

\* the second server failed after the first had listed its tools
C16_Witness ==
    /\ DiscoveryFailed
    /\ ci = 2
    /\ Len(tools) = Len(MathTools)
    /\ conn[1] = "open"


\* C17: within one query at most one external request is outstanding at every
\* instant, to one tool-provider server or to the reasoning model: while
\* runQuery awaits, the outstanding requests are the one it awaits, and none
\* is outstanding before it starts and after it has ended
C17_OneRequestAtATime ==
    /\ Cardinality(inflight) <= 1
    /\ inflight = Awaited
    /\ \A r \in inflight : r.kind = "tools/call" => pc = "call" /\ r.target = servers[si]
    /\ \A r \in inflight : r.kind = "messages.create" => pc = "model"

\* the second connection is called after the call to the first has failed
C17_Witness ==
    /\ Len(servers) = 2
    /\ inflight = { Req("tools/call", 2) }
    /\ Len(calls) = 1
    /\ ~calls[1].ok


\* C18: cleanup never raises: it issues one close request to every registered
\* connection, in registration order, whether or not the earlier closes
\* failed, and when it has returned the connection registry and the tool list
\* are empty
C18_CleanupNeverRaises ==
    /\ closes # <<>> => pc \in {"close", "returned"} /\ error = ""
    /\ pc = "close" =>
          /\ Len(closes) = ki - 1
          /\ Len(servers) = nServers
          /\ \A j \in DOMAIN closes : closes[j].server = servers[j]
    /\ pc = "returned" =>
          /\ servers = <<>>
          /\ availableTools = <<>>
          /\ Len(closes) = nServers
          /\ \A j \in 1..nServers : closes[j].server = j
          /\ \A j \in 1..nServers : conn[j] = (IF closes[j].ok THEN "closed" ELSE "open")

\* cleanup has returned after the first close failed and the second was issued
C18_Witness ==
    /\ pc = "returned"
    /\ Len(closes) = 2
    /\ ~closes[1].ok
    /\ closes[2].ok
    /\ servers = <<>>


\* C19: when the API credential is missing, or the configuration file is
\* missing or unreadable, the session aborts with an error (that of the
\* credential when both are missing) before any connection is attempted: no
\* transport is created, no request is issued, nothing is registered
C19_AbortBeforeConnect ==
    ~apiKey \/ ~cfgOk =>
        /\ pc \in {"new", "raised"}
        /\ pc = "raised" =>
              error = (IF ~apiKey THEN "Anthropic API key is required."
                                  ELSE "ConfigurationError")
        /\ ci = 0
        /\ inflight = {}
        /\ servers = <<>>
        /\ \A i \in DOMAIN conn : conn[i] = "none"
        /\ tools = <<>> /\ availableTools = <<>>
        /\ pq = "idle" /\ modelCalls = 0

\* the session has aborted on the configuration with servers configured
C19_Witness ==
    /\ pc = "raised"
    /\ apiKey /\ ~cfgOk
    /\ nServers = NumServers
    /\ error = "ConfigurationError"


\* the servers called by the v-th executeTool call and the outcome of each call
CallPattern(v) == [j \in DOMAIN CallsOf(v) |-> <<CallsOf(v)[j].server, CallsOf(v)[j].ok>>]

SameCall(v, w) ==
    /\ BlockOf(v).name = BlockOf(w).name
    /\ BlockOf(v).input = BlockOf(w).input

ClaimedItemText(c) == IF "text" \in DOMAIN c THEN c.text ELSE <<Stringify(c)>>

RECURSIVE ClaimedJoin(_, _)
ClaimedJoin(items, i) ==
    IF i > Len(items) THEN <<>>
    ELSE IF i = Len(items) THEN ClaimedItemText(items[i])
    ELSE ClaimedItemText(items[i]) \o <<"\n">> \o ClaimedJoin(items, i + 1)

ClaimedNormalize(c) ==
    CASE c.kind = "absent" -> NoOutput
      [] c.kind = "list" -> ClaimedJoin(c.items, 1)
      [] c.kind = "string" -> c.text
      [] OTHER -> NormalizeResult(c)

\* C21: the value of executeTool for a successful tools/call is: for a list of
\* content items the items' texts joined by newlines, an item being reduced to
\* its text field if present and to its serialized form otherwise; a plain
\* string as it is; for absent content the fixed "no output" string
C21_Normalization ==
    \A j \in DOMAIN calls :
        calls[j].ok /\ calls[j].invocation <= Len(toolResults) =>
            toolResults[calls[j].invocation] = ClaimedNormalize(calls[j].content)


\* an argument that is not a file path: an option flag
IsOption(a) == ~a.abs /\ Len(a.segs) = 1 /\ a.segs[1] \in OptionFlags

\* C22: every relative file-path argument of a descriptor is replaced by its
\* absolute path against the working directory, an absolute argument is left
\* unchanged, and an argument that is not a file path (an option flag) is
\* passed unchanged
C22_ArgsResolved ==
    \A i \in DOMAIN resolvedArgs :
        LET a == serverArgs[i]
            r == resolvedArgs[i]
        IN IF a.abs \/ IsOption(a)
           THEN r = a
           ELSE r.abs /\ r = resolve(cwd, a)


\* n is a prime number
IsPrimeNumber(n) == n > 1 /\ \A d \in 2..(n - 1) : n % d # 0

NotPrimeTexts ==
    { " is not prime (must be integer >= 2)", " is not prime (even number)",
      " is not prime (divisible by " }

\* C24: for every integer n of -1..MaxN the result of is_prime asserts
\* primality ("n is prime") exactly when n is a prime number and is a
\* not-prime result otherwise; 2 is reported prime and 4 not prime for being
\* even; a divisor cited divides n
C24_IsPrime ==
    \A v \in DOMAIN toolResults :
        BlockOf(v).name = "is_prime" =>
            LET n == BlockOf(v).input.n
                r == toolResults[v]
            IN /\ r[1] = ToString(n)
               /\ (r = <<ToString(n), " is prime">>) <=> IsPrimeNumber(n)
               /\ ~IsPrimeNumber(n) => r[2] \in NotPrimeTexts
               /\ n = 2 => r = <<"2", " is prime">>
               /\ n = 4 => r = <<"4", " is not prime (even number)">>
               /\ r[2] = " is not prime (divisible by " =>
                     \E d \in 3..(n - 1) : r[3] = ToString(d) /\ n % d = 0

\* is_prime was asked about 9
C24_Witness ==
    \E v \in DOMAIN toolResults :
        /\ BlockOf(v).name = "is_prime"
        /\ BlockOf(v).input.n = 9
        /\ toolResults[v] = <<"9", " is not prime (divisible by ", "3", ")">>


\* the tool names server `i` advertised in its tools/list result
Advertised(i) == { MathTools[t] : t \in DOMAIN MathTools }

\* C25: a tools/call request is sent only to a server that advertised the
\* requested tool name
C25_OnlyOwnerCalled ==
    \A j \in DOMAIN calls : calls[j].name \in Advertised(calls[j].server)

\* the blocks of response k positioned after its first tool-use block
BlocksAfterTool(k) ==
    LET f == FirstToolUse(responses[k])
    IN IF f = 0 THEN {} ELSE { responses[k][i] : i \in (f + 1)..Len(responses[k]) }

\* C26: a block positioned after the first tool-use block of a response (a
\* text block or a further tool-use block) never produces a step, while the
\* whole response, those blocks included, is the content of the assistant
\* message appended to the log
C26_BlocksAfterToolUse ==
    /\ \A k \in DOMAIN responses : \A b \in BlocksAfterTool(k) :
          \A i \in DOMAIN steps :
              /\ steps[i] # Step("text", b.text)
              /\ steps[i] # ToolUseStep(b)
    /\ Len(SelectSeq(steps, IsToolUseStep)) = toolInvocations
    /\ \A k \in DOMAIN toolResults :
          /\ messages[2 * k].role = "assistant"
          /\ Len(messages[2 * k].content) = Len(responses[k])
          /\ \A b \in BlocksAfterTool(k) :
                \E i \in DOMAIN messages[2 * k].content : messages[2 * k].content[i] = b

\* processQuery returned after a turn whose response was [tool_use, text]
C26_Witness ==
    /\ pq = "returned"
    /\ Len(responses) = 2
    /\ responses[1][1].type = "tool_use"
    /\ Len(responses[1]) = 2
    /\ responses[1][2].type = "text"

\* C27: in every log sent to the model each tool-use id of an assistant
\* message is answered by a tool_result entry with that id in the user message
\* that immediately follows
C27_ToolUseAnswered ==
    \A k \in DOMAIN sent : \A j \in DOMAIN sent[k] :
        sent[k][j].role = "assistant" =>
            \A i \in DOMAIN sent[k][j].content :
                sent[k][j].content[i].type = "tool_use" =>
                    /\ j + 1 <= Len(sent[k])
                    /\ sent[k][j + 1].role = "user"
                    /\ \E m \in DOMAIN sent[k][j + 1].content :
                          /\ sent[k][j + 1].content[m].type = "tool_result"
                          /\ sent[k][j + 1].content[m].id = sent[k][j].content[i].id


C29_NoOrphanAfterCleanup ==
    lastCall.method = "cleanup" =>
        \A h \in DOMAIN transports : transports[h].state # "open"


\* the ws.send calls that are replies to request `id`
RepliesTo(id) == SelectSeq(wsSent, LAMBDA m : m.message_id = id)

\* C30: each folder read or folder update request leads to at most one reply
\* carrying its message_id, exactly one once its timer has fired, and every
\* send of a delayed reply happens while the socket is open
C30_DelayedReply ==
    /\ \A id \in 1..nReceived :
          /\ Len(RepliesTo(id)) <= 1
          /\ (\E t \in timers : t.message_id = id) => Len(RepliesTo(id)) = 0
    /\ \A i \in DOMAIN wsSent :
          wsSent[i].message_id # 0 => wsSent[i].state = "OPEN"

(***************************************************************************)
(* Two runQuery calls in flight at once.  Each call makes its own client   *)
(* and runs processQuery, whose `steps` and `messages` are arrays created  *)
(* by that call; every await is a point where the other call may run.      *)
(* The model's answers to query q carry q in their texts and tool-use ids  *)
(* and ask for the factorial of q, so that whatever one call produces is   *)
(* recognisable.                                                           *)
(***************************************************************************)

\* mutant of NewArray: one array, created once and shared by every call
SameArray(arrays) == 1

\* `const steps = []`, `const messages = [...]`: an array that did not exist
NewArray(arrays) == Len(arrays) + 1

\* the arrays once array `ref` holds `val`
Store(arrays, ref, val) ==
    [i \in 1..(IF ref > Len(arrays) THEN ref ELSE Len(arrays)) |->
        IF i = ref THEN val ELSE arrays[i]]

QueryBlockText(q, k) ==
    Block("text", NoId, "", NoInput, <<"answer ", ToString(q), ".", ToString(k)>>)

QueryBlockTool(q, k) ==
    Block("tool_use", <<q, k>>, "factorial", [n |-> q], <<>>)

\* what the model may answer to call `k` of query `q`
QueryResponses(q, k) ==
    { <<QueryBlockText(q, k)>> } \cup
    IF k < MaxTurns
    THEN { <<QueryBlockTool(q, k)>>, <<QueryBlockText(q, k), QueryBlockTool(q, k)>> }
    ELSE {}

\* processQuery up to its first await: the locals are created and the log
\* goes to the model
QueryStart(q) ==
    /\ runs[q].pc = "new"
    /\ LET ref  == NewArray(logs)
           sref == NewArray(stepLists)
       IN /\ stepLists' = Store(stepLists, sref, <<>>)
          /\ logs' = Store(logs, ref, <<UserMessage(QueryTexts[q])>>)
          /\ qsent' = Append(qsent, [query |-> q, log |-> logs'[ref]])
          /\ runs' = [runs EXCEPT ![q] = [@ EXCEPT !.pc = "model", !.log = ref,
                                                   !.steps = sref, !.turn = 1]]
    /\ UNCHANGED <<main, argVars, clientVars, socketVars>>

\* messages.create resolves: the for loop runs to the first tool-use block,
\* or to its end, where processQuery returns `steps`
QueryModelReturn(q, resp) ==
    /\ runs[q].pc = "model"
    /\ resp \in QueryResponses(q, runs[q].turn)
    /\ LET sc == Scan(resp, 1, stepLists[runs[q].steps])
       IN /\ stepLists' = Store(stepLists, runs[q].steps, sc.steps)
          /\ runs' = [runs EXCEPT ![q] =
                        IF sc.tool # 0
                        THEN [@ EXCEPT !.pc = "call", !.response = resp, !.block = sc.tool]
                        ELSE [@ EXCEPT !.pc = "done", !.response = resp]]
    /\ UNCHANGED <<main, argVars, clientVars, socketVars, logs, qsent>>

\* executeTool resolves: the result step and the two messages are pushed,
\* `break` leaves the for loop and the log goes to the model again
QueryToolReturn(q) ==
    /\ runs[q].pc = "call"
    /\ LET r  == runs[q]
           b  == r.response[r.block]
           toolResult == NormalizeResult(ListContent(MathCall(b.name, b.input).content))
       IN /\ stepLists' = Store(stepLists, r.steps,
                                Append(stepLists[r.steps], Step("tool_result", toolResult)))
          /\ logs' = Store(logs, r.log, PushTurn(logs[r.log], r.response, b.id, toolResult))
          /\ qsent' = Append(qsent, [query |-> q, log |-> logs'[r.log]])
          /\ runs' = [runs EXCEPT ![q] = [@ EXCEPT !.pc = "model", !.turn = @ + 1]]
    /\ UNCHANGED <<main, argVars, clientVars, socketVars>>

InitQueries ==
    /\ InitMain
    /\ apiKey /\ cfgOk /\ nServers > 0 /\ ~looping
    /\ AuxIdle

NextQueries ==
    \/ \E q \in Queries : QueryStart(q)
    \/ \E q \in Queries : \E resp \in QueryResponses(q, runs[q].turn) : QueryModelReturn(q, resp)
    \/ \E q \in Queries : QueryToolReturn(q)

QueriesSpec == InitQueries /\ [][NextQueries]_vars

\* block `b` was written for, or produced by, query `q`
BlockFrom(b, q) ==
    CASE b.type = "string"      -> b.text = <<QueryTexts[q]>>
      [] b.type = "text"        -> b.text[2] = ToString(q)
      [] b.type = "tool_use"    -> b.id[1] = q /\ b.input.n = q
      [] b.type = "tool_result" -> b.id[1] = q /\ b.text[1] = ToString(q)

\* step `s` was produced by query `q`
StepFrom(s, q) ==
    CASE s.type = "text"        -> s.content[2] = ToString(q)
      [] s.type = "tool_use"    -> s.content[4] = Stringify([n |-> q])
      [] s.type = "tool_result" -> s.content[1] = ToString(q)

\* C23: when two runQuery calls run concurrently, every log sent to the model
\* for a query holds only that query's messages, and the steps a query returns
\* are only its own, under every interleaving
C23_QueriesIsolated ==
    /\ \A i \in DOMAIN qsent :
         \A j \in DOMAIN qsent[i].log :
           \A n \in DOMAIN qsent[i].log[j].content :
             BlockFrom(qsent[i].log[j].content[n], qsent[i].query)
    /\ \A q \in Queries :
         runs[q].pc = "done" =>
           \A n \in DOMAIN stepLists[runs[q].steps] : StepFrom(stepLists[runs[q].steps][n], q)

\* both queries returned after a tool turn each, their model calls interleaved
C23_Witness ==
    /\ \A q \in Queries : runs[q].pc = "done" /\ Len(stepLists[runs[q].steps]) >= 3
    /\ \E i, j, k \in DOMAIN qsent :
         /\ i < j /\ j < k
         /\ qsent[i].query = 1 /\ qsent[j].query = 2 /\ qsent[k].query = 1

=============================================================================
